---- MODULE Spec2Model ----
(***************************************************************************)
(* State-machine model of the live goal-event ingestion subsystem:         *)
(*   WebSocketGoalListener  (stream path: connect, reconnect, dedup,       *)
(*                           callback fan-out)                             *)
(*   HybridGoalListener     (stream task + health monitor + polling        *)
(*                           fallback)                                     *)
(* from backend/bot/websocket_goal_listener.py, and the engine that owns   *)
(* them.                                                                   *)
(*                                                                         *)
(* Specifications:                                                         *)
(*   Spec      lifecycle of a HybridGoalListener: start, the stream loop   *)
(*             with every connection outcome, backoff, the health monitor, *)
(*             stop, restart of the stream loop.                           *)
(*   SpecMsg   a connected stream listener handling arbitrary sequences of *)
(*             inbound messages.                                           *)
(*   SpecPoll  _poll_for_goals applied to arbitrary sequences of fetched   *)
(*             snapshots.                                                  *)
(*   SpecFanout  both dispatch paths over arbitrary registries.            *)
(*   SpecOrder   both dispatch paths with the callbacks' suspensions       *)
(*             visible.                                                    *)
(*   SpecSources the stream loop and the health monitor side by side.      *)
(*   SpecLive  one lifetime of a HybridGoalListener under fair scheduling. *)
(*   SpecEngine  UnifiedTradingEngine (engine_unified.py): start, its      *)
(*             loops and collaborator tasks, stop.                         *)
(*   SpecDefaults  a connected stream listener handling goal messages      *)
(*             with absent fields.                                         *)
(*   SpecTables  every kind of message and the poll cycles, over the       *)
(*             three tables.                                               *)
(*   SpecDelivery  the engine's consumer, registered through the hybrid    *)
(*             listener, under both dispatch paths.                        *)
(***************************************************************************)
EXTENDS Integers, Sequences, FiniteSets, TLC

VARIABLES
    \* ---- WebSocketGoalListener fields
    running,               \* self.running
    ws,                    \* self.ws: "none" | "open" | "closed"
    goal_callbacks,        \* self.goal_callbacks (sequence of callback handles)
    seen_goals,            \* self.seen_goals (set of dedup keys)
    reconnect_attempts,    \* self.reconnect_attempts
    active_fixtures,       \* self.active_fixtures (fixture id -> payload tag)
    \* ---- HybridGoalListener fields
    hybrid_running,        \* HybridGoalListener.running
    use_polling_fallback,  \* HybridGoalListener.use_polling_fallback
    http_client,           \* "open" | "closed"
    previous_scores,       \* fixture id -> <<home, away>>
    hybrid_goal_callbacks, \* HybridGoalListener.goal_callbacks
    \* ---- positions of the concurrent activities
    wsPc,                  \* the _run_websocket / WebSocketGoalListener.start task
    monPc,                 \* the _health_monitor task
    stopPc,                \* the caller of HybridGoalListener.stop
    monAtStop,             \* history: where the health monitor was when stop was called
    delay,                 \* the delay being slept in _handle_reconnection (scaled)
    \* ---- history (observation only, never read by the modelled code)
    starts,                \* number of times the stream loop was started
    runBase,               \* reconnect_attempts when the current run began
    runFails,              \* failed sessions of this run since its last successful connect
    runSleeps,             \* backoff sleeps of this run since its last successful connect
    failsBeforeConnect,    \* failures that preceded the connect of the current session
    exhausted,             \* Exhausted reports of the current run
    goalCount,             \* goal messages handled so far
    delivered,             \* dedup key -> number of stream dispatches
    dropped,               \* keys of goal messages dropped by the league filter
    prunes,                \* number of times seen_goals was pruned
    lastOp,                \* the last handler step: "none" | "message" | "poll"
    last,                  \* the message of the last message step
    lastPoll,              \* the response fetched by the last poll
    scoresBefore,          \* previous_scores as the last poll found it
    emitted,               \* GoalEventWS records dispatched by the last handler step
    calls,                 \* <<callback, index into emitted>> invocations of that step
    propagated,            \* an error escaped a dispatch of that step
    tick,                  \* flipped by every handler step (message or poll)
    \* ---- the dispatch of a handler step, invocation by invocation
    callPos,               \* position in `calls` of the next invocation to begin
    open,                  \* callback -> its invocations begun and not returned
    \* ---- UnifiedTradingEngine
    engine_running,        \* UnifiedTradingEngine.running
    engPc,                 \* the caller of UnifiedTradingEngine.start
    estopPc,               \* a caller of UnifiedTradingEngine.stop from outside start
    loopPc,                \* engine loop -> its position
    collabPc,              \* collaborator task -> its position
    exports,               \* number of times _export_session_logs has run
    goals_processed        \* UnifiedTradingEngine.goals_processed

vars == << running, ws, goal_callbacks, seen_goals, reconnect_attempts,
           active_fixtures, hybrid_running, use_polling_fallback, http_client,
           previous_scores, hybrid_goal_callbacks, wsPc, monPc, stopPc, monAtStop,
           delay, starts, runBase, runFails, runSleeps, failsBeforeConnect, exhausted,
           goalCount, delivered, dropped, prunes, lastOp, last, lastPoll,
           scoresBefore, emitted, calls, propagated, tick, callPos, open,
           engine_running, engPc, estopPc, loopPc, collabPc, exports,
           goals_processed >>

stopVars     == << stopPc, monAtStop >>
listenerVars == << running, ws, reconnect_attempts >>
tableVars    == << seen_goals, active_fixtures, previous_scores >>
registryVars == << goal_callbacks, hybrid_goal_callbacks >>
hybridVars   == << hybrid_running, use_polling_fallback, http_client >>
runHistVars  == << starts, runBase, runFails, runSleeps, failsBeforeConnect, exhausted >>
msgHistVars  == << goalCount, delivered, dropped, prunes, last >>
pollHistVars == << lastPoll, scoresBefore >>
stepHistVars == << lastOp, emitted, calls, propagated, tick, callPos, open >>
histVars     == << msgHistVars, pollHistVars, stepHistVars >>
engineTaskVars == << engine_running, engPc, estopPc, loopPc, collabPc, exports >>
engineVars   == << engineTaskVars, goals_processed >>

----------------------------------------------------------------------------
\* Program constants

SUPPORTED_LEAGUES == {39, 140, 78, 135, 61, 2, 3, 848}

max_reconnect_attempts == 10
base_reconnect_delay == 2
max_reconnect_delay == 60

----------------------------------------------------------------------------
\* Bounds of the model

\* random.uniform(0, 0.25) is sampled at k / (4 * JitterSteps), k in 0..JitterSteps
JitterSteps == 2
\* the stream loop is started at most this many times
MaxStarts == 2
\* callbacks registered on one listener
MaxCallbacks == 2
\* goal messages handled by the stream path
MaxGoalMsgs == 4
\* no further poll cycle once the engine's counter has reached this value
MaxGoalsProcessed == 4

Min(a, b) == IF a < b THEN a ELSE b

RECURSIVE Pow2(_)
Pow2(n) == IF n <= 0 THEN 1 ELSE 2 * Pow2(n - 1)

----------------------------------------------------------------------------
\* _handle_reconnection: the pure parts

\* `self.reconnect_attempts > self.max_reconnect_attempts`
ExceededAtCeiling(n) == n >= max_reconnect_attempts
Exceeded(n) == n > max_reconnect_attempts

\* `min(base * 2 ** (attempts - 1), max_delay)`
BackoffBaseUncapped(n) == base_reconnect_delay * Pow2(n - 1)
BackoffBase(n) == Min(base_reconnect_delay * Pow2(n - 1), max_reconnect_delay)

\* One second is DelayUnit units of `delay`.
DelayUnit == 4 * JitterSteps

\* `delay += delay * random.uniform(0, 0.25)`, the random draw being
\* k / (4 * JitterSteps); the result is in units of 1 / DelayUnit seconds.
NextDelay(n, k) == BackoffBase(n) * DelayUnit + BackoffBase(n) * k

----------------------------------------------------------------------------
\* Values

\* A key that is absent from a payload: dict.get returns its default, which is
\* None where no default is given.
Missing == -1
\* The same for a string-valued key.
NoPlayer == "<missing>"

FixtureIds == {1, 2}
\* 39 is allow-listed, 999 is not
LeagueIds == {39, 999}
Minutes == {7}
Players == {"Kane"}

\* Registered consumers; "cb_raise" raises on every call.
Callbacks == {"cb_ok", "cb_raise"}
Raises(cb) == cb = "cb_raise"

\* the consumer the engine registers, _on_goal_event
OnGoalEvent == "on_goal_event"

\* `self.goals_processed += 1`, first statement of _on_goal_event: the counter
\* after the invocations cls of a handler step
GoalsProcessedAfter(n, cls) ==
    n + Cardinality({ i \in 1..Len(cls) : cls[i][1] = OnGoalEvent })

\* An inbound message. `type` is the JSON "type", or "nonjson" for text that is
\* not JSON and "nonobject" for JSON that is not an object. `bad` names the
\* sub-object that is present but not a mapping (JSON null), if any.
Msg(t, f, l, mi, p, b) ==
    [type |-> t, fixture_id |-> f, league_id |-> l, minute |-> mi,
     player |-> p, bad |-> b]

PlainMsg(t) == Msg(t, Missing, Missing, Missing, NoPlayer, "none")

GoalMessages ==
    \* well-formed, allow-listed
    { Msg("goal", f, 39, mi, "Kane", "none") :
        f \in FixtureIds, mi \in Minutes \cup {Missing} }
    \* minute and player absent
    \cup { Msg("goal", 1, 39, Missing, NoPlayer, "none") }
    \* league not allow-listed, or absent
    \cup { Msg("goal", 1, l, 7, "Kane", "none") : l \in {999, Missing} }
    \* one sub-object is null
    \cup { Msg("goal", Missing, 39, 7, "Kane", "fixture"),
           Msg("goal", 1, Missing, 7, "Kane", "league"),
           Msg("goal", 1, 39, Missing, NoPlayer, "goal"),
           Msg("goal", 1, 39, 7, "Kane", "score") }

OtherMessages ==
    { PlainMsg(t) : t \in {"heartbeat", "error", "other", "nonjson", "nonobject"} }
    \cup { Msg("fixture_update", f, Missing, Missing, NoPlayer, "none") :
             f \in {1, Missing} }
    \cup { Msg("fixture_update", 1, Missing, Missing, NoPlayer, "fixture") }

Messages == GoalMessages \cup OtherMessages

\* Allow-listed goal messages with absent fields: everything but the league;
\* minute and player; the player; the minute; and a complete one.
DefaultsMessages ==
    { Msg("goal", Missing, 39, Missing, NoPlayer, "none"),
      Msg("goal", 1, 39, Missing, NoPlayer, "none"),
      Msg("goal", 1, 39, 7, NoPlayer, "none"),
      Msg("goal", 1, 39, Missing, "Kane", "none"),
      Msg("goal", 1, 39, 7, "Kane", "none") }

\* The messages drawn while the whole lifecycle is explored.
LifecycleMessages == { PlainMsg("heartbeat") }

NoInput == PlainMsg("none")

EmptyMap == [x \in {} |-> 0]

\* Goal counts of a fetched fixture; Missing is JSON null (no goals yet)
HomeScores == {Missing, 0, 1, 2}
AwayScores == {0, 1}

\* One fixture of the fetched live-fixture list
Fixture(f, l, h, a) == [id |-> f, league_id |-> l, home |-> h, away |-> a]

FirstFixtures ==
    { Fixture(1, l, h, a) : l \in LeagueIds, h \in HomeScores, a \in AwayScores }
SecondFixtures ==
    { Fixture(2, l, h, 0) : l \in LeagueIds, h \in {0, 1} }

\* What the fetch of one poll cycle yields: the request raises ("error"), the
\* status is not 200 ("status"), or a list of fixtures ("ok").
Response(k, fs) == [kind |-> k, fixtures |-> fs]

Responses ==
    { Response("error", << >>), Response("status", << >>), Response("ok", << >>) }
    \cup { Response("ok", << x >>) : x \in FirstFixtures \cup SecondFixtures }
    \cup { Response("ok", << x, y >>) : x \in FirstFixtures, y \in SecondFixtures }

\* The responses and messages drawn while the registries are explored.
FanoutResponses ==
    { Response("ok", << Fixture(1, 39, h, a) >>) :
        h \in {0, 1}, a \in {0, 1} }
    \cup { Response("ok", << Fixture(2, 999, 1, 0), Fixture(1, 39, Missing, 1) >>) }

FanoutMessages ==
    { Msg("goal", 1, 39, mi, "Kane", "none") : mi \in {7, Missing} }

NoResponse == Response("none", << >>)

\* The messages and the responses drawn while the frame of the tables is
\* explored.
TablesMessages == OtherMessages \cup FanoutMessages
TablesResponses == FanoutResponses \cup { Response("error", << >>) }

\* The message and the snapshots drawn while both sources are explored.
SourcesMessages == { Msg("goal", 1, 39, 7, "Kane", "none") }
SourcesResponses == { Response("ok", << Fixture(1, 39, h, 0) >>) : h \in {0, 1} }

\* The response drawn while the whole lifecycle is explored.
LifecycleResponses == { Response("ok", << Fixture(1, 39, 1, 0) >>) }

----------------------------------------------------------------------------
\* _handle_goal_event: the pure parts

\* goal_id = f"{fixture_id}_{goal.get('minute', 0)}_{goal.get('player', 'unknown')}"
\* The three formatted components, defaults applied.
GoalIdRaw(m) == << m.fixture_id, m.minute, m.player >>
GoalId(m) ==
    << m.fixture_id,
       IF m.minute = Missing THEN 0 ELSE m.minute,
       IF m.player = NoPlayer THEN "unknown" ELSE m.player >>

Keys == { GoalId(m) : m \in GoalMessages \cup DefaultsMessages }

\* The high-water mark of `if len(self.seen_goals) > 1000` and the size kept
\* by `[-500:]`, scaled down so that a handful of messages reaches a prune;
\* they are bounds of the model.
SeenGoalsMark == 2
SeenGoalsKeep == 1

\* `set(list(self.seen_goals)[-500:])`: a set has no insertion order, so
\* the slice keeps an arbitrary subset of that size.  The set of outcomes.
PruneOutcomesNever(S) == {S}
PruneOutcomes(S) ==
    IF Cardinality(S) > SeenGoalsMark
      THEN { T \in SUBSET S : Cardinality(T) = Min(SeenGoalsKeep, Cardinality(S)) }
      ELSE {S}

\* `if league_id not in self.SUPPORTED_LEAGUES`
LeagueFilteredNever(m) == FALSE
LeagueFiltered(m) == m.league_id \notin SUPPORTED_LEAGUES

\* `if goal_id in self.seen_goals`
IsDuplicateNever(m, seen) == FALSE
IsDuplicate(m, seen) == GoalId(m) \in seen

\* GoalEventWS(...) built from a stream message (absent fields defaulted)
StreamEvent(m) ==
    [source |-> "stream", fixture_id |-> m.fixture_id, league_id |-> m.league_id,
     team |-> "Unknown",
     player |-> IF m.player = NoPlayer THEN "Unknown" ELSE m.player,
     minute |-> IF m.minute = Missing THEN 0 ELSE m.minute,
     home_score |-> 0, away_score |-> 0, goal_type |-> "Normal"]

----------------------------------------------------------------------------
\* Callback fan-out (_notify_goal_callbacks and the loop of _emit_polling_goal)

\* `except Exception as e: logger.error(...)` around each callback
CallbackErrorCaughtNot == FALSE
CallbackErrorCaught == TRUE

\* a dispatch that skips a registry position whose consumer it has already
\* invoked for the event
NotifyFromDistinct(cbs, i, ev) ==
    LET First(j) == j >= i /\ \A k \in 1..(j - 1) : cbs[k] # cbs[j]
        ids == SelectSeq([j \in 1..Len(cbs) |-> j], First)
    IN  [invoked |-> [p \in 1..Len(ids) |-> << cbs[ids[p]], ev >>],
         raised |-> FALSE]

\* `for callback in self.goal_callbacks:`: the invocations made for event
\* number `ev` over registry `cbs` from position i on, and whether an error
\* escaped the loop.
RECURSIVE NotifyFrom(_, _, _)
NotifyFrom(cbs, i, ev) ==
    IF i > Len(cbs) THEN [invoked |-> << >>, raised |-> FALSE]
    ELSE IF Raises(cbs[i]) /\ ~CallbackErrorCaught
      THEN [invoked |-> << <<cbs[i], ev>> >>, raised |-> TRUE]
      ELSE LET rest == NotifyFrom(cbs, i + 1, ev)
           IN  [invoked |-> << <<cbs[i], ev>> >> \o rest.invoked,
                raised |-> rest.raised]

NotifyGoalCallbacks(cbs, ev) == NotifyFrom(cbs, 1, ev)

----------------------------------------------------------------------------
\* Registration

\* WebSocketGoalListener.register_goal_callback
RegisterWs(cb) ==
    /\ Len(goal_callbacks) < MaxCallbacks
    /\ goal_callbacks' = Append(goal_callbacks, cb)
    /\ UNCHANGED << listenerVars, tableVars, hybridVars, hybrid_goal_callbacks,
                    wsPc, monPc, stopVars, delay, runHistVars, histVars >>
    /\ UNCHANGED engineVars

\* HybridGoalListener.register_goal_callback
RegisterHybrid(cb) ==
    /\ Len(goal_callbacks) < MaxCallbacks
    /\ Len(hybrid_goal_callbacks) < MaxCallbacks
    /\ hybrid_goal_callbacks' = Append(hybrid_goal_callbacks, cb)
    /\ goal_callbacks' = Append(goal_callbacks, cb)
    /\ UNCHANGED << listenerVars, tableVars, hybridVars,
                    wsPc, monPc, stopVars, delay, runHistVars, histVars >>
    /\ UNCHANGED engineVars

----------------------------------------------------------------------------
\* Message handling

\* A handler step starts a dispatch: the invocations it makes are `calls`,
\* none of them begun yet.
DispatchBegins ==
    /\ callPos' = 1
    /\ UNCHANGED open

\* A handler step that neither dispatches nor touches the tables.
NoDispatch ==
    /\ emitted' = << >>
    /\ calls' = << >>
    /\ propagated' = FALSE

\* `await self._notify_goal_callbacks(goal_event)` iterates the stream
\* listener's own registry
StreamRegistryBoth(wsCbs, hybridCbs) == wsCbs \o hybridCbs
StreamRegistry(wsCbs, hybridCbs) == wsCbs

\* _handle_goal_event(data)
HandleGoalEvent(m) ==
    IF m.bad \in {"fixture", "league"}
      THEN \* fixture.get / league.get raises; caught by the handler's except
           /\ NoDispatch
           /\ UNCHANGED << seen_goals, delivered, dropped, prunes >>
    ELSE IF LeagueFiltered(m)
      THEN /\ NoDispatch
           /\ dropped' = dropped \cup {GoalId(m)}
           /\ UNCHANGED << seen_goals, delivered, prunes >>
    ELSE IF m.bad = "goal"
      THEN \* goal.get raises while the key is formatted
           /\ NoDispatch
           /\ UNCHANGED << seen_goals, delivered, dropped, prunes >>
    ELSE IF IsDuplicate(m, seen_goals)
      THEN /\ NoDispatch
           /\ UNCHANGED << seen_goals, delivered, dropped, prunes >>
    ELSE /\ \E kept \in PruneOutcomes(seen_goals \cup {GoalId(m)}) :
                /\ seen_goals' = kept
                /\ prunes' = IF kept = seen_goals \cup {GoalId(m)}
                               THEN prunes ELSE prunes + 1
         /\ UNCHANGED dropped
         /\ IF m.bad = "score"
              THEN \* score.get raises while the event is built, after the
                   \* key was recorded; caught by the handler's except
                   /\ NoDispatch
                   /\ UNCHANGED delivered
              ELSE LET r == NotifyGoalCallbacks(
                                StreamRegistry(goal_callbacks,
                                               hybrid_goal_callbacks), 1)
                   IN  /\ emitted' = << StreamEvent(m) >>
                       /\ calls' = r.invoked
                       \* an error that escapes the dispatch is caught by
                       \* the handler's own except
                       /\ propagated' = r.raised
                       /\ delivered' =
                            [delivered EXCEPT ![GoalId(m)] = @ + 1]

\* `if fixture_id: self.active_fixtures[fixture_id] = data`: the table after
\* the fixture update m
FixturesAfterUpdateNever(table, m) == table
FixturesAfterUpdate(table, m) ==
    IF m.bad = "fixture" THEN table   \* .get raises on null
    ELSE IF m.fixture_id # Missing /\ m.fixture_id # 0
      THEN (m.fixture_id :> m) @@ table
      ELSE table

\* _handle_fixture_update(data)
HandleFixtureUpdate(m) ==
    /\ active_fixtures' = FixturesAfterUpdate(active_fixtures, m)

\* `json.loads(message)` raises on text that is not JSON; `data.get` raises on
\* JSON that is not an object
MessageRaises(m) == m.type \in {"nonjson", "nonobject"}

\* `except json.JSONDecodeError:` and `except Exception as e:` of
\* _process_message: whether an error raised while m is processed is caught
ProcessMessageCatchesJsonOnly(m) == m.type = "nonjson"
ProcessMessageCatches(m) == TRUE

\* _process_message(message)
ProcessMessage(m) ==
    /\ goalCount' = IF m.type = "goal" THEN goalCount + 1 ELSE goalCount
    /\ last' = m
    /\ lastOp' = "message"
    /\ tick' = ~tick
    /\ DispatchBegins
    /\ UNCHANGED pollHistVars
    /\ IF m.type = "goal"
         THEN HandleGoalEvent(m) /\ UNCHANGED active_fixtures
         ELSE IF m.type = "fixture_update"
           THEN /\ HandleFixtureUpdate(m)
                /\ NoDispatch
                /\ UNCHANGED << seen_goals, delivered, dropped, prunes >>
           ELSE \* heartbeat, error, unknown type, unparsable text, non-object
                /\ NoDispatch
                /\ UNCHANGED << seen_goals, active_fixtures, delivered, dropped,
                                prunes >>
    /\ goals_processed' = GoalsProcessedAfter(goals_processed, calls')

----------------------------------------------------------------------------
\* Polling fallback: _poll_for_goals and _emit_polling_goal

\* `fixture["goals"]["home"] or 0`
PollScore(x) == IF x = Missing THEN 0 ELSE x

\* `if current[0] > prev[0]: await self._emit_polling_goal(fixture, "home")`:
\* the number of events emitted for one score column
EventsForColumnPerGoal(cur, prev) == IF cur > prev THEN cur - prev ELSE 0
EventsForColumn(cur, prev) == IF cur > prev THEN 1 ELSE 0

\* GoalEventWS(...) of _emit_polling_goal
PollEvent(f, side) ==
    [source |-> "poll", fixture_id |-> f.id, league_id |-> f.league_id,
     team |-> side, player |-> "Unknown (from polling)", minute |-> 0,
     home_score |-> PollScore(f.home), away_score |-> PollScore(f.away),
     goal_type |-> "Normal"]

Repeat(x, n) == [i \in 1..n |-> x]

\* _emit_polling_goal for each side of `sides` from position j on, over the
\* registry cbs; stops when an error escapes a dispatch.
RECURSIVE EmitAll(_, _, _, _, _, _)
EmitAll(f, sides, j, cbs, evs, cls) ==
    IF j > Len(sides) THEN [events |-> evs, calls |-> cls, raised |-> FALSE]
    ELSE LET evs2 == Append(evs, PollEvent(f, sides[j]))
             r == NotifyGoalCallbacks(cbs, Len(evs2))
         IN  IF r.raised
               THEN [events |-> evs2, calls |-> cls \o r.invoked, raised |-> TRUE]
               ELSE EmitAll(f, sides, j + 1, cbs, evs2, cls \o r.invoked)

\* `self.previous_scores[fixture_id] = current`, after the comparison; `sides`
\* are the columns found increased
StoredAfterOnlyOnDelta(prev, id, cur, sides) ==
    IF sides # << >> THEN (id :> cur) @@ prev ELSE prev
StoredAfter(prev, id, cur, sides) == (id :> cur) @@ prev

\* `if fixture_id in self.previous_scores:` and the two comparisons under
\* it: the columns of fixture `id`, now at `cur`, for which an event is emitted
IncreasedSidesFromZero(prev, id, cur) ==
    LET p == IF id \in DOMAIN prev THEN prev[id] ELSE << 0, 0 >>
    IN  Repeat("home", EventsForColumn(cur[1], p[1]))
        \o Repeat("away", EventsForColumn(cur[2], p[2]))
IncreasedSides(prev, id, cur) ==
    IF id \in DOMAIN prev
      THEN Repeat("home", EventsForColumn(cur[1], prev[id][1]))
           \o Repeat("away", EventsForColumn(cur[2], prev[id][2]))
      ELSE << >>

\* `for fixture in fixtures:` of _poll_for_goals, from position i on
RECURSIVE PollLoop(_, _, _, _, _, _)
PollLoop(fixtures, i, cbs, prev, evs, cls) ==
    IF i > Len(fixtures)
      THEN [prev |-> prev, events |-> evs, calls |-> cls, aborted |-> FALSE]
    ELSE LET f == fixtures[i] IN
      IF f.league_id \notin SUPPORTED_LEAGUES
        THEN PollLoop(fixtures, i + 1, cbs, prev, evs, cls)
      ELSE LET cur == << PollScore(f.home), PollScore(f.away) >>
               sides == IncreasedSides(prev, f.id, cur)
               em == EmitAll(f, sides, 1, cbs, evs, cls)
           IN  IF em.raised
                 THEN \* the error leaves the loop; caught by `except Exception`
                      [prev |-> prev, events |-> em.events, calls |-> em.calls,
                       aborted |-> TRUE]
                 ELSE PollLoop(fixtures, i + 1, cbs,
                               StoredAfter(prev, f.id, cur, sides),
                               em.events, em.calls)

\* The body of _poll_for_goals for a fetch that yields r
PollCycle(r) ==
    /\ lastPoll' = r
    /\ scoresBefore' = previous_scores
    /\ lastOp' = "poll"
    /\ tick' = ~tick
    /\ DispatchBegins
    /\ IF r.kind # "ok" \/ http_client = "closed"
         THEN \* the get raises, or `if response.status_code != 200: return`
              /\ NoDispatch
              /\ UNCHANGED previous_scores
         ELSE LET res == PollLoop(r.fixtures, 1, hybrid_goal_callbacks,
                                  previous_scores, << >>, << >>)
              IN  /\ previous_scores' = res.prev
                  /\ emitted' = res.events
                  /\ calls' = res.calls
                  /\ propagated' = res.aborted
    /\ goals_processed' = GoalsProcessedAfter(goals_processed, calls')

\* _poll_for_goals: one poll cycle whose fetch yields r
PollForGoals(r) ==
    /\ PollCycle(r)
    /\ UNCHANGED << listenerVars, seen_goals, active_fixtures, registryVars,
                    hybridVars, wsPc, monPc, stopVars, delay, runHistVars,
                    msgHistVars >>
    /\ UNCHANGED engineTaskVars

----------------------------------------------------------------------------
\* The dispatch of a handler step seen invocation by invocation: a callback
\* is a coroutine that is entered, may suspend, and returns (or raises, which
\* the dispatch loop catches).

\* `await callback(goal)` in both dispatch loops, `await
\* self._notify_goal_callbacks(...)`, `await self._process_message(message)`
\* and `await self._emit_polling_goal(...)`: the caller resumes only when the
\* callee has returned
DispatchAwaitedNot == FALSE
DispatchAwaited == TRUE

\* every invocation of the current handler step has begun and returned
DispatchDone ==
    /\ callPos > Len(calls)
    /\ \A c \in Callbacks : open[c] = 0

\* the dispatch loop enters the next callback of `calls`
CallbackEnter ==
    /\ callPos <= Len(calls)
    /\ DispatchAwaited => \A c \in Callbacks : open[c] = 0
    /\ open' = [open EXCEPT ![calls[callPos][1]] = @ + 1]
    /\ callPos' = callPos + 1
    /\ UNCHANGED << listenerVars, tableVars, registryVars, hybridVars, wsPc,
                    monPc, stopVars, delay, runHistVars, msgHistVars,
                    pollHistVars, lastOp, emitted, calls, propagated, tick >>
    /\ UNCHANGED engineVars

\* callback cb returns, or raises into the `except Exception` around it
CallbackReturn(cb) ==
    /\ open[cb] > 0
    /\ open' = [open EXCEPT ![cb] = @ - 1]
    /\ UNCHANGED << listenerVars, tableVars, registryVars, hybridVars, wsPc,
                    monPc, stopVars, delay, runHistVars, msgHistVars,
                    pollHistVars, lastOp, emitted, calls, propagated, tick,
                    callPos >>
    /\ UNCHANGED engineVars

----------------------------------------------------------------------------
\* The stream loop: WebSocketGoalListener.start, _connect_and_listen,
\* _handle_reconnection, run as the task _run_websocket

\* `self.reconnect_attempts = 0  # Reset on successful connection`
AttemptsAfterConnectKept(n) == n
AttemptsAfterConnect(n) == 0

\* How WebSocketGoalListener.start ends: its loop catches every Exception of
\* _connect_and_listen, and on exhaustion _handle_reconnection clears `running`
\* and returns, so the loop ends and start returns normally.
StartOutcome(isExhausted) == "returned"

\* _run_websocket: `except Exception: self.use_polling_fallback = True`
FallbackAfterRun(outcome, flag) == IF outcome = "raised" THEN TRUE ELSE flag

\* HybridGoalListener.start: both tasks are created; neither has run yet.
HybridStart ==
    /\ wsPc = "idle" /\ monPc = "idle"
    /\ hybrid_running' = TRUE
    /\ wsPc' = "created"
    /\ monPc' = "created"
    /\ UNCHANGED << listenerVars, tableVars, registryVars, use_polling_fallback,
                    http_client, stopVars, delay, runHistVars, histVars >>
    /\ UNCHANGED engineVars

\* start(): `self.running = True`, then the loop
WsBegin ==
    /\ wsPc = "created"
    /\ running' = TRUE
    /\ wsPc' = "loop"
    /\ starts' = starts + 1
    /\ runBase' = reconnect_attempts
    /\ runFails' = 0
    /\ runSleeps' = 0
    /\ failsBeforeConnect' = 0
    /\ exhausted' = 0
    /\ UNCHANGED << ws, reconnect_attempts, tableVars, registryVars, hybridVars,
                    monPc, stopVars, delay, histVars >>
    /\ UNCHANGED engineVars

\* `while self.running:`; when it fails start returns into _run_websocket
WsLoopHead ==
    /\ wsPc = "loop"
    /\ IF running
         THEN /\ wsPc' = "connecting"
              /\ UNCHANGED use_polling_fallback
         ELSE /\ wsPc' = "done"
              /\ use_polling_fallback' =
                   FallbackAfterRun(StartOutcome(exhausted > 0),
                                    use_polling_fallback)
    /\ UNCHANGED << listenerVars, tableVars, registryVars, hybrid_running,
                    http_client, monPc, stopVars, delay, runHistVars, histVars >>
    /\ UNCHANGED engineVars

\* _handle_reconnection, up to its sleep; k is the random draw
HandleReconnection(k) ==
    /\ reconnect_attempts' = reconnect_attempts + 1
    /\ IF Exceeded(reconnect_attempts + 1)
         THEN /\ running' = FALSE
              /\ exhausted' = exhausted + 1
              /\ wsPc' = "loop"
              /\ UNCHANGED << delay, runSleeps >>
         ELSE /\ delay' = NextDelay(reconnect_attempts + 1, k)
              /\ runSleeps' = runSleeps + 1
              /\ wsPc' = "backoff"
              /\ UNCHANGED << running, exhausted >>

\* `except Exception as e:` of start: `if self.running: _handle_reconnection()`
OnSessionError(k) ==
    /\ runFails' = runFails + 1
    /\ IF running
         THEN HandleReconnection(k)
         ELSE /\ wsPc' = "loop"
              /\ UNCHANGED << running, reconnect_attempts, delay, exhausted,
                              runSleeps >>
    /\ failsBeforeConnect' = 0
    /\ UNCHANGED << starts, runBase >>

\* websockets.connect raises
ConnectFail ==
    /\ wsPc = "connecting"
    /\ \E k \in 0..JitterSteps : OnSessionError(k)
    /\ UNCHANGED << ws, tableVars, registryVars, hybridVars, monPc, stopVars,
                    histVars >>
    /\ UNCHANGED engineVars

\* websockets.connect succeeds: `self.ws = ws`, the counter is reset
ConnectOk ==
    /\ wsPc = "connecting"
    /\ ws' = "open"
    /\ reconnect_attempts' = AttemptsAfterConnect(reconnect_attempts)
    /\ wsPc' = "subscribing"
    /\ failsBeforeConnect' = runFails
    /\ runFails' = 0
    /\ runSleeps' = 0
    /\ UNCHANGED << running, tableVars, registryVars, hybridVars, monPc, stopVars,
                    delay, starts, runBase, exhausted, histVars >>
    /\ UNCHANGED engineVars

\* _subscribe_to_goals: the send succeeds
SubscribeOk ==
    /\ wsPc = "subscribing"
    /\ ws = "open"
    /\ wsPc' = "receiving"
    /\ UNCHANGED << listenerVars, tableVars, registryVars, hybridVars, monPc,
                    stopVars, delay, runHistVars, histVars >>
    /\ UNCHANGED engineVars

\* _subscribe_to_goals: the send raises; `async with` closes the connection
SubscribeFail ==
    /\ wsPc = "subscribing"
    /\ ws' = "closed"
    /\ \E k \in 0..JitterSteps : OnSessionError(k)
    /\ UNCHANGED << tableVars, registryVars, hybridVars, monPc, stopVars,
                    histVars >>
    /\ UNCHANGED engineVars

\* `async for message in ws:` yields a message
Receive(m) ==
    /\ wsPc = "receiving"
    /\ ws = "open"
    /\ m.type = "goal" => goalCount < MaxGoalMsgs
    /\ IF ~running
         THEN \* `if not self.running: break`, then `async with` closes
              /\ ws' = "closed"
              /\ wsPc' = "loop"
              /\ UNCHANGED << running, reconnect_attempts, delay, runHistVars,
                              tableVars, histVars, goals_processed >>
         ELSE IF MessageRaises(m) /\ ~ProcessMessageCatches(m)
           THEN \* the error leaves _process_message and the `async for`;
                \* `async with` closes the connection, start's except runs
                /\ ws' = "closed"
                /\ \E k \in 0..JitterSteps : OnSessionError(k)
                /\ last' = m
                /\ lastOp' = "message"
                /\ tick' = ~tick
                /\ DispatchBegins
                /\ emitted' = << >>
                /\ calls' = << >>
                /\ propagated' = TRUE
                /\ UNCHANGED << tableVars, goalCount, delivered, dropped, prunes,
                                pollHistVars, goals_processed >>
           ELSE /\ ProcessMessage(m)
                /\ UNCHANGED << running, reconnect_attempts, ws, wsPc, delay,
                                runHistVars, previous_scores >>
    /\ UNCHANGED << registryVars, hybridVars, monPc, stopVars >>
    /\ UNCHANGED engineTaskVars

\* the receive raises (connection lost, heartbeat timeout)
RecvError ==
    /\ wsPc = "receiving"
    /\ ws = "open"
    /\ ws' = "closed"
    /\ \E k \in 0..JitterSteps : OnSessionError(k)
    /\ UNCHANGED << tableVars, registryVars, hybridVars, monPc, stopVars,
                    histVars >>
    /\ UNCHANGED engineVars

\* the iteration ends without an exception: the connection was closed cleanly,
\* by the peer or by stop(); _connect_and_listen returns
RecvClosed ==
    /\ wsPc = "receiving"
    /\ ws' = "closed"
    /\ wsPc' = "loop"
    /\ UNCHANGED << running, reconnect_attempts, tableVars, registryVars,
                    hybridVars, monPc, stopVars, delay, runHistVars, histVars >>
    /\ UNCHANGED engineVars

\* `await asyncio.sleep(delay)` returns
BackoffDone ==
    /\ wsPc = "backoff"
    /\ wsPc' = "loop"
    /\ delay' = 0
    /\ UNCHANGED << listenerVars, tableVars, registryVars, hybridVars, monPc,
                    stopVars, runHistVars, histVars >>
    /\ UNCHANGED engineVars

\* start() is called again on a listener whose loop has ended
WsRestart ==
    /\ wsPc = "done"
    /\ starts < MaxStarts
    /\ wsPc' = "created"
    /\ UNCHANGED << listenerVars, tableVars, registryVars, hybridVars, monPc,
                    stopVars, delay, runHistVars, histVars >>
    /\ UNCHANGED engineVars

----------------------------------------------------------------------------
\* The health monitor and stop

\* `while self.running:` of _health_monitor
MonLoopHead ==
    /\ monPc \in {"created", "loop"}
    /\ monPc' = IF hybrid_running THEN "sleep" ELSE "done"
    /\ UNCHANGED << listenerVars, tableVars, registryVars, hybridVars, wsPc,
                    stopVars, delay, runHistVars, histVars >>
    /\ UNCHANGED engineVars

\* `if self.use_polling_fallback:` of _health_monitor
MonitorPollsAlways(flag) == TRUE
MonitorPolls(flag) == flag

\* `await asyncio.sleep(30)` returns; if the fallback flag is set one poll
\* cycle runs, its fetch yielding r; then back to the loop head
MonWake(r) ==
    /\ monPc = "sleep"
    /\ monPc' = "loop"
    /\ IF MonitorPolls(use_polling_fallback)
         THEN PollCycle(r)
         ELSE UNCHANGED << previous_scores, pollHistVars, stepHistVars,
                           goals_processed >>
    /\ UNCHANGED << listenerVars, seen_goals, active_fixtures, registryVars,
                    hybridVars, wsPc, stopVars, delay, runHistVars, msgHistVars >>
    /\ UNCHANGED engineTaskVars

\* HybridGoalListener.stop up to its first suspension: both flags are cleared
\* and WebSocketGoalListener.stop starts closing the connection, if any
HybridStop ==
    /\ stopPc = "idle"
    /\ monPc # "idle"
    /\ hybrid_running' = FALSE
    /\ running' = FALSE
    /\ ws' = IF ws = "open" THEN "closed" ELSE ws
    /\ stopPc' = "closing"
    /\ monAtStop' = monPc
    /\ UNCHANGED << reconnect_attempts, tableVars, registryVars,
                    use_polling_fallback, http_client, wsPc, monPc, delay,
                    runHistVars, histVars >>
    /\ UNCHANGED engineVars

\* `await self.http_client.aclose()`, then stop returns
HybridStopReturn ==
    /\ stopPc = "closing"
    /\ http_client' = "closed"
    /\ stopPc' = "returned"
    /\ UNCHANGED monAtStop
    /\ UNCHANGED << listenerVars, tableVars, registryVars, hybrid_running,
                    use_polling_fallback, wsPc, monPc, delay, runHistVars,
                    histVars >>
    /\ UNCHANGED engineVars

----------------------------------------------------------------------------
\* UnifiedTradingEngine (engine_unified.py), with every component enabled

\* _pre_match_odds_loop, _live_fixture_loop, _stats_reporter_loop
EngineLoops == {"odds", "live", "stats"}

\* The tasks alpha_one.monitor_positions() and alpha_two.start(): loops owned
\* by the downstream collaborators.  Such a task may raise at any time, and
\* returns only once the engine has been told to stop.
Collaborators == {"alpha_one", "alpha_two"}

\* everything that belongs to the goal listener
goalListenerVars == << listenerVars, tableVars, registryVars, hybridVars, wsPc,
                       monPc, stopVars, delay, runHistVars, histVars >>

\* `await asyncio.gather(*tasks, return_exceptions=True)`: an exception of a
\* task is collected as its result
GatherReturnsExceptionsNot == FALSE
GatherReturnsExceptions == TRUE

\* every task created by UnifiedTradingEngine.start has ended; the listener's
\* task ends when its own gather of the stream task and the monitor ends
AllTasksEnded ==
    /\ wsPc = "done"
    /\ monPc = "done"
    /\ \A l \in EngineLoops : loopPc[l] = "done"
    /\ \A c \in Collaborators : collabPc[c] \in {"returned", "raised"}

\* UnifiedTradingEngine.start up to its gather: the flag is set, the consumer
\* registered, the tasks created
EngineStart ==
    /\ engPc = "idle"
    /\ engine_running' = TRUE
    /\ hybrid_goal_callbacks' = Append(hybrid_goal_callbacks, OnGoalEvent)
    /\ goal_callbacks' = Append(goal_callbacks, OnGoalEvent)
    /\ loopPc' = [l \in EngineLoops |-> "created"]
    /\ collabPc' = [c \in Collaborators |-> "running"]
    /\ engPc' = "gathering"
    /\ UNCHANGED << listenerVars, tableVars, hybridVars, wsPc, monPc, stopVars,
                    delay, runHistVars, histVars, estopPc, exports, goals_processed >>

\* the task goal_listener.start() takes its first step
EngineListenerTask ==
    /\ engPc = "gathering"
    /\ HybridStart

\* `while self.running:` of an engine loop
EngineLoopHead(l) ==
    /\ loopPc[l] \in {"created", "loop"}
    /\ loopPc' = [loopPc EXCEPT ![l] = IF engine_running THEN "sleep" ELSE "done"]
    /\ UNCHANGED << goalListenerVars, engine_running, engPc, estopPc, collabPc,
                    exports, goals_processed >>

\* the body of an engine loop and its sleep return; an error of the body is
\* caught by the loop's `except Exception`, which sleeps as well
EngineLoopWake(l) ==
    /\ loopPc[l] = "sleep"
    /\ loopPc' = [loopPc EXCEPT ![l] = "loop"]
    /\ UNCHANGED << goalListenerVars, engine_running, engPc, estopPc, collabPc,
                    exports, goals_processed >>

\* a collaborator's task raises
CollabRaise(c) ==
    /\ collabPc[c] = "running"
    /\ collabPc' = [collabPc EXCEPT ![c] = "raised"]
    /\ UNCHANGED << goalListenerVars, engine_running, engPc, estopPc, loopPc,
                    exports, goals_processed >>

\* a collaborator's task returns
CollabReturn(c) ==
    /\ collabPc[c] = "running"
    /\ ~engine_running
    /\ collabPc' = [collabPc EXCEPT ![c] = "returned"]
    /\ UNCHANGED << goalListenerVars, engine_running, engPc, estopPc, loopPc,
                    exports, goals_processed >>

\* the gather of start ends: `finally:` is entered
EngineGatherDone ==
    /\ engPc = "gathering"
    /\ \/ AllTasksEnded
       \/ /\ ~GatherReturnsExceptions
          /\ \E c \in Collaborators : collabPc[c] = "raised"
    /\ engPc' = "finally"
    /\ UNCHANGED << goalListenerVars, engine_running, estopPc, loopPc, collabPc,
                    exports, goals_processed >>

\* `finally: await self.stop()`: stop() run through by start itself
EngineFinallyStop ==
    /\ engPc = "finally"
    /\ engine_running' = FALSE
    /\ hybrid_running' = FALSE
    /\ running' = FALSE
    /\ ws' = IF ws = "open" THEN "closed" ELSE ws
    /\ http_client' = "closed"
    /\ exports' = exports + 1
    /\ engPc' = "done"
    /\ UNCHANGED << reconnect_attempts, tableVars, registryVars,
                    use_polling_fallback, wsPc, monPc, stopVars, delay,
                    runHistVars, histVars, estopPc, loopPc, collabPc,
                    goals_processed >>

\* stop() is called from outside start, once the listener's task has started:
\* `self.running = False`
EngineStop ==
    /\ estopPc = "idle"
    /\ engPc = "gathering"
    /\ monPc # "idle"
    /\ engine_running' = FALSE
    /\ estopPc' = "listener"
    /\ UNCHANGED << goalListenerVars, engPc, loopPc, collabPc, exports, goals_processed >>

\* `await self.goal_listener.stop()` begins
EngineStopListener ==
    /\ estopPc = "listener"
    /\ HybridStop

\* goal_listener.stop() has returned: alpha_two.stop(), polymarket.close(),
\* kalshi.close()
EngineStopCollaborators ==
    /\ estopPc = "listener"
    /\ stopPc = "returned"
    /\ estopPc' = "collaborators"
    /\ UNCHANGED << goalListenerVars, engine_running, engPc, loopPc, collabPc,
                    exports, goals_processed >>

\* `self._export_session_logs()`, then stop returns
EngineStopExport ==
    /\ estopPc = "collaborators"
    /\ exports' = exports + 1
    /\ estopPc' = "done"
    /\ UNCHANGED << goalListenerVars, engine_running, engPc, loopPc, collabPc,
                    goals_processed >>

\* ---- the sources, waiting for their dispatch

\* the receive loop takes the next message once _process_message has returned
AwaitedReceive(m) ==
    /\ DispatchAwaited => DispatchDone
    /\ Receive(m)

\* the monitor runs the next poll cycle once the previous one has returned
AwaitedPoll(r) ==
    /\ DispatchAwaited => DispatchDone
    /\ PollForGoals(r)

----------------------------------------------------------------------------
\* Specifications

Init ==
    /\ running = FALSE
    /\ ws = "none"
    /\ goal_callbacks = << >>
    /\ seen_goals = {}
    /\ reconnect_attempts = 0
    /\ active_fixtures = EmptyMap
    /\ hybrid_running = FALSE
    /\ use_polling_fallback = FALSE
    /\ http_client = "open"
    /\ previous_scores = EmptyMap
    /\ hybrid_goal_callbacks = << >>
    /\ wsPc = "idle"
    /\ monPc = "idle"
    /\ stopPc = "idle"
    /\ monAtStop = "idle"
    /\ delay = 0
    /\ starts = 0
    /\ runBase = 0
    /\ runFails = 0
    /\ runSleeps = 0
    /\ failsBeforeConnect = 0
    /\ exhausted = 0
    /\ goalCount = 0
    /\ delivered = [k \in Keys |-> 0]
    /\ dropped = {}
    /\ prunes = 0
    /\ lastOp = "none"
    /\ last = NoInput
    /\ lastPoll = NoResponse
    /\ scoresBefore = EmptyMap
    /\ emitted = << >>
    /\ calls = << >>
    /\ propagated = FALSE
    /\ tick = FALSE
    /\ callPos = 1
    /\ open = [c \in Callbacks |-> 0]
    /\ engine_running = FALSE
    /\ engPc = "idle"
    /\ estopPc = "idle"
    /\ loopPc = [l \in EngineLoops |-> "idle"]
    /\ collabPc = [c \in Collaborators |-> "idle"]
    /\ exports = 0
    /\ goals_processed = 0

StreamLoop ==
    \/ WsBegin
    \/ WsLoopHead
    \/ ConnectFail
    \/ ConnectOk
    \/ SubscribeOk
    \/ SubscribeFail
    \/ RecvError
    \/ RecvClosed
    \/ BackoffDone

Next ==
    \/ HybridStart
    \/ StreamLoop
    \/ \E m \in LifecycleMessages : Receive(m)
    \/ WsRestart
    \/ MonLoopHead
    \/ \E r \in LifecycleResponses : MonWake(r)
    \/ HybridStop
    \/ HybridStopReturn

Spec == Init /\ [][Next]_vars

\* One lifetime of a HybridGoalListener under the scheduling asyncio gives:
\* a task that can take a step eventually takes it, a sleep eventually
\* returns, and a network operation (connect, send, receive) eventually
\* returns with one of its outcomes.
NextLive ==
    \/ HybridStart
    \/ StreamLoop
    \/ \E m \in LifecycleMessages : Receive(m)
    \/ MonLoopHead
    \/ \E r \in LifecycleResponses : MonWake(r)
    \/ HybridStop
    \/ HybridStopReturn

Fairness ==
    /\ WF_vars(WsBegin)
    /\ WF_vars(WsLoopHead)
    /\ WF_vars(BackoffDone)
    /\ WF_vars(ConnectOk \/ ConnectFail)
    /\ WF_vars(SubscribeOk \/ SubscribeFail)
    /\ WF_vars((\E m \in LifecycleMessages : Receive(m)) \/ RecvError \/ RecvClosed)
    /\ WF_vars(MonLoopHead)
    /\ WF_vars(\E r \in LifecycleResponses : MonWake(r))
    /\ WF_vars(HybridStopReturn)

SpecLive == Init /\ [][NextLive]_vars /\ Fairness

\* Both sources of one HybridGoalListener side by side: the stream loop with
\* every connection outcome, goal messages, and the health monitor.
NextSources ==
    \/ RegisterHybrid("cb_ok")
    \/ HybridStart
    \/ StreamLoop
    \/ \E m \in SourcesMessages : Receive(m)
    \/ MonLoopHead
    \/ \E r \in SourcesResponses : MonWake(r)

SpecSources == Init /\ [][NextSources]_vars

\* Both dispatch paths with the callbacks' suspensions visible.  One source
\* is driven at a time (the poll cycles directly, as in SpecFanout).
NextOrder ==
    \/ \E cb \in Callbacks : RegisterHybrid(cb)
    \/ HybridStart
    \/ WsBegin
    \/ WsLoopHead
    \/ ConnectOk
    \/ SubscribeOk
    \/ \E m \in FanoutMessages : AwaitedReceive(m)
    \/ \E r \in FanoutResponses : AwaitedPoll(r)
    \/ CallbackEnter
    \/ \E cb \in Callbacks : CallbackReturn(cb)

SpecOrder == Init /\ [][NextOrder]_vars

\* The engine with its listener, loops and collaborators.
NextEngine ==
    \/ EngineStart
    \/ EngineListenerTask
    \/ WsBegin
    \/ WsLoopHead
    \/ ConnectOk
    \/ SubscribeOk
    \/ RecvClosed
    \/ MonLoopHead
    \/ \E r \in LifecycleResponses : MonWake(r)
    \/ \E l \in EngineLoops : EngineLoopHead(l)
    \/ \E l \in EngineLoops : EngineLoopWake(l)
    \/ \E c \in Collaborators : CollabRaise(c)
    \/ \E c \in Collaborators : CollabReturn(c)
    \/ EngineGatherDone
    \/ EngineFinallyStop
    \/ EngineStop
    \/ EngineStopListener
    \/ HybridStopReturn
    \/ EngineStopCollaborators
    \/ EngineStopExport

SpecEngine == Init /\ [][NextEngine]_vars

\* A connected stream listener handling goal messages with absent fields.
NextDefaults ==
    \/ \E cb \in Callbacks : RegisterWs(cb)
    \/ HybridStart
    \/ WsBegin
    \/ WsLoopHead
    \/ ConnectOk
    \/ SubscribeOk
    \/ \E m \in DefaultsMessages : Receive(m)

SpecDefaults == Init /\ [][NextDefaults]_vars

NextMsg ==
    \/ \E cb \in Callbacks : RegisterWs(cb)
    \/ HybridStart
    \/ WsBegin
    \/ WsLoopHead
    \/ ConnectOk
    \/ SubscribeOk
    \/ \E m \in Messages : Receive(m)

SpecMsg == Init /\ [][NextMsg]_vars

\* _poll_for_goals invoked cycle after cycle.  The listener's own path never
\* sets use_polling_fallback, so the cycles are driven directly, as a unit
\* test of the method drives them.
NextPoll ==
    \E r \in Responses : PollForGoals(r)

SpecPoll == Init /\ [][NextPoll]_vars

\* a poll cycle of the engine's listener, run by its health monitor task
EnginePoll(r) ==
    /\ monPc # "idle"
    /\ goals_processed < MaxGoalsProcessed
    /\ PollForGoals(r)

\* The engine's consumer under both dispatch paths
NextDelivery ==
    \/ EngineStart
    \/ EngineListenerTask
    \/ WsBegin
    \/ WsLoopHead
    \/ ConnectOk
    \/ SubscribeOk
    \/ \E m \in FanoutMessages : Receive(m)
    \/ \E r \in FanoutResponses : EnginePoll(r)

SpecDelivery == Init /\ [][NextDelivery]_vars

\* Every kind of message and the poll cycles, over the three tables
NextTables ==
    \/ HybridStart
    \/ WsBegin
    \/ WsLoopHead
    \/ ConnectOk
    \/ SubscribeOk
    \/ \E m \in TablesMessages : Receive(m)
    \/ \E r \in TablesResponses : PollForGoals(r)

SpecTables == Init /\ [][NextTables]_vars

\* Both dispatch paths over every registry
NextFanout ==
    \/ \E cb \in Callbacks : RegisterWs(cb)
    \/ \E cb \in Callbacks : RegisterHybrid(cb)
    \/ HybridStart
    \/ WsBegin
    \/ WsLoopHead
    \/ ConnectOk
    \/ SubscribeOk
    \/ \E m \in FanoutMessages : Receive(m)
    \/ \E r \in FanoutResponses : PollForGoals(r)

SpecFanout == Init /\ [][NextFanout]_vars

----------------------------------------------------------------------------
\* Properties

connected == wsPc \in {"subscribing", "receiving"}

\* C1: once the stream loop has ended Exhausted and the hybrid listener has not
\* been stopped, the polling fallback is activated.  The flag is set only by
\* _run_websocket, so it must be set by the time that task has finished.
C1_FallbackActivatedAfterExhausted ==
    (exhausted > 0 /\ wsPc = "done" /\ hybrid_running) => use_polling_fallback

\* C2: in a run of start() that began with a fresh counter, Exhausted is
\* reported at most once, exactly upon the (ceiling+1)-th consecutive failure and
\* after ceiling backoff sleeps; from then on there is no attempt and no sleep
\* (the counters stay put, the loop is at its exit) and nothing was raised into
\* _run_websocket; a loop that ended without Exhausted was stopped.
C2_ExhaustedOnceAfterCeiling ==
    runBase = 0 =>
      /\ exhausted <= 1
      /\ runFails <= max_reconnect_attempts + 1
      /\ (runFails <= max_reconnect_attempts /\ stopPc = "idle") => exhausted = 0
      /\ exhausted = 1 =>
           /\ runFails = max_reconnect_attempts + 1
           /\ runSleeps = max_reconnect_attempts
           /\ reconnect_attempts = max_reconnect_attempts + 1
           /\ ~running
           /\ delay = 0
           /\ wsPc \in {"loop", "done", "created"}
           /\ ~use_polling_fallback
      /\ (wsPc = "done" /\ exhausted = 0) => stopPc # "idle"

C2_Witness ==
    /\ runBase = 0
    /\ exhausted = 1
    /\ wsPc = "done"
    /\ stopPc = "idle"

\* C6: when a stop() that was called while the health monitor was in the
\* middle of a cycle has returned, the monitor has completed that cycle and
\* exited.
C6_StopWaitsForMonitor ==
    (stopPc = "returned" /\ monAtStop \in {"sleep", "polling"}) => monPc = "done"

\* C7: a successful connection resets reconnect_attempts to 0; while the
\* session lasts the listener is not Exhausted and the fallback is off.
C7_ConnectResetsAttempts ==
    connected =>
      /\ reconnect_attempts = 0
      /\ exhausted = 0
      /\ ~use_polling_fallback

\* three failures, then the fourth attempt succeeded
C7_Witness ==
    /\ wsPc = "receiving"
    /\ failsBeforeConnect = 3
    /\ reconnect_attempts = 0

\* C8 as stated: for attempt n the slept delay lies in
\* [base*2^(n-1), base*2^(n-1)*1.25] and is at most cap*1.25.
C8_DelayInUncappedBand ==
    wsPc = "backoff" =>
      LET n == reconnect_attempts
          lo == base_reconnect_delay * Pow2(n - 1) * DelayUnit
      IN  /\ n \in 1..max_reconnect_attempts
          /\ lo <= delay
          /\ 4 * delay <= 5 * lo
          /\ 4 * delay <= 5 * max_reconnect_delay * DelayUnit

\* C8 amended: for attempt n the slept delay lies in [d, 1.25*d] with
\* d = min(base*2^(n-1), cap), hence is at most cap*1.25; it is at least
\* base*2^(n-1) whenever base*2^(n-1) <= cap.
C8_DelayInCappedBand ==
    wsPc = "backoff" =>
      LET n == reconnect_attempts
          raw == base_reconnect_delay * Pow2(n - 1)
          d == IF raw <= max_reconnect_delay THEN raw ELSE max_reconnect_delay
      IN  /\ n \in 1..max_reconnect_attempts
          /\ d * DelayUnit <= delay
          /\ 4 * delay <= 5 * d * DelayUnit
          /\ 4 * delay <= 5 * max_reconnect_delay * DelayUnit
          /\ raw <= max_reconnect_delay => raw * DelayUnit <= delay

\* the last attempt, with the largest jitter: the delay is cap*1.25
C8_Witness ==
    /\ wsPc = "backoff"
    /\ reconnect_attempts = max_reconnect_attempts
    /\ 4 * delay = 5 * max_reconnect_delay * DelayUnit

\* the registry's invocations for n dispatched events, in dispatch order
ExpectedCalls(cbs, n) ==
    [j \in 1..(n * Len(cbs)) |->
       << cbs[((j - 1) % Len(cbs)) + 1], ((j - 1) \div Len(cbs)) + 1 >>]

\* C3: for well-formed goal messages of an allow-listed league: a message
\* whose key is not recorded invokes every registered callback exactly once and
\* records the key; a message that immediately follows one with the identical
\* key invokes none.
C3_AdmittedOnceThenRejected ==
    [][ (tick' # tick /\ lastOp' = "message" /\ last'.type = "goal"
         /\ last'.bad = "none" /\ last'.league_id \in SUPPORTED_LEAGUES)
        => /\ GoalId(last') \notin seen_goals
                => /\ calls' = ExpectedCalls(goal_callbacks, 1)
                   /\ GoalId(last') \in seen_goals'
           /\ (/\ lastOp = "message"
               /\ last.type = "goal"
               /\ last.bad = "none"
               /\ last.league_id \in SUPPORTED_LEAGUES
               /\ GoalId(last) = GoalId(last'))
                => calls' = << >>
      ]_vars

\* C4 as stated: a dedup key is dispatched at most once by the stream path.
C4_AtMostOncePerKey ==
    \A k \in Keys : delivered[k] <= 1

\* C4 amended: a dedup key is dispatched at most once by the stream path for
\* as long as seen_goals is not pruned; each further dispatch of a key needs a
\* prune before it.
C4_AtMostOncePerKeyBetweenPrunes ==
    \A k \in Keys : delivered[k] <= 1 + prunes

\* a key dispatched twice, after a prune
C4_Witness ==
    /\ prunes = 1
    /\ \E k \in Keys : delivered[k] = 2

\* C5: in both dispatch paths every registered consumer is invoked for every
\* dispatched event, in dispatch order, whichever consumers raise, and no error
\* escapes the dispatch.
C5_RaisingConsumerIsolated ==
    [][ tick' # tick
        => /\ ~propagated'
           /\ lastOp' = "message"
                => calls' = ExpectedCalls(goal_callbacks, Len(emitted'))
           /\ lastOp' = "poll"
                => calls' = ExpectedCalls(hybrid_goal_callbacks, Len(emitted'))
      ]_vars

\* a poll dispatching two events to a raising consumer followed by a good one
C5_Witness ==
    /\ lastOp = "poll"
    /\ hybrid_goal_callbacks = << "cb_raise", "cb_ok" >>
    /\ calls = << <<"cb_raise", 1>>, <<"cb_ok", 1>>,
                  <<"cb_raise", 2>>, <<"cb_ok", 2>> >>

\* C9: a goal message whose league is not allow-listed, or absent, invokes no
\* callback and leaves seen_goals alone; a later well-formed allow-listed
\* message with the same, unrecorded key is dispatched.
C9_FilteredBeforeDedup ==
    [][ (tick' # tick /\ lastOp' = "message" /\ last'.type = "goal")
        => /\ last'.league_id \notin SUPPORTED_LEAGUES
                => /\ calls' = << >>
                   /\ emitted' = << >>
                   /\ seen_goals' = seen_goals
                   /\ delivered' = delivered
           /\ (/\ last'.league_id \in SUPPORTED_LEAGUES
               /\ last'.bad = "none"
               /\ GoalId(last') \in dropped
               /\ GoalId(last') \notin seen_goals)
                => /\ Len(emitted') = 1
                   /\ calls' = ExpectedCalls(goal_callbacks, 1)
      ]_vars

\* a key first dropped by the league filter, then dispatched for the first time
C9_Witness ==
    /\ lastOp = "message"
    /\ last.league_id \in SUPPORTED_LEAGUES
    /\ last.bad = "none"
    /\ GoalId(last) \in dropped
    /\ delivered[GoalId(last)] = 1
    /\ Len(emitted) = 1
    /\ Len(calls) = 2

EventCount(evs, f, side) ==
    Cardinality({ i \in 1..Len(evs) : evs[i].fixture_id = f /\ evs[i].team = side })

\* C10: in one poll cycle, each allow-listed fixture with a stored snapshot
\* gets exactly one home-goal event iff its home score strictly increased and
\* exactly one away-goal event iff its away score strictly increased, whatever
\* the size of the increase; none for an unchanged or decreased column.
C10_OneEventPerIncreasedColumn ==
    (lastOp = "poll" /\ lastPoll.kind = "ok") =>
      \A i \in 1..Len(lastPoll.fixtures) :
        LET f == lastPoll.fixtures[i]
            h == IF f.home = Missing THEN 0 ELSE f.home
            a == IF f.away = Missing THEN 0 ELSE f.away
        IN  (f.league_id \in SUPPORTED_LEAGUES /\ f.id \in DOMAIN scoresBefore)
              => /\ EventCount(emitted, f.id, "home")
                      = IF h > scoresBefore[f.id][1] THEN 1 ELSE 0
                 /\ EventCount(emitted, f.id, "away")
                      = IF a > scoresBefore[f.id][2] THEN 1 ELSE 0

\* the home score went from 0 to 2 between two polls: one home-goal event
C10_Witness ==
    /\ lastOp = "poll"
    /\ 1 \in DOMAIN scoresBefore
    /\ scoresBefore[1] = << 0, 0 >>
    /\ previous_scores[1] = << 2, 0 >>
    /\ EventCount(emitted, 1, "home") = 1
    /\ Len(emitted) = 1

C12_PruneKeepsTriggeringKey ==
    [][ prunes' # prunes => GoalId(last') \in seen_goals' ]_vars

\* C14: a message that is not JSON, is not a JSON object, is of type "error"
\* or of an unrecognized type raises nothing into the receive loop: the
\* connection stays open and the loop keeps receiving, no callback is
\* invoked, and seen_goals, active_fixtures and reconnect_attempts are unchanged.
C14_BadMessageDropped ==
    [][ (tick' # tick /\ lastOp' = "message"
         /\ last'.type \in {"nonjson", "nonobject", "error", "other"})
        => /\ ws' = "open"
           /\ wsPc' = "receiving"
           /\ running'
           /\ ~propagated'
           /\ calls' = << >>
           /\ emitted' = << >>
           /\ seen_goals' = seen_goals
           /\ active_fixtures' = active_fixtures
           /\ reconnect_attempts' = reconnect_attempts
      ]_vars

\* a non-object message handled on a listener whose tables are not empty
C14_Witness ==
    /\ lastOp = "message"
    /\ last.type = "nonobject"
    /\ wsPc = "receiving"
    /\ ws = "open"
    /\ seen_goals # {}
    /\ 1 \in DOMAIN active_fixtures
    /\ goal_callbacks # << >>

\* C17: after a poll cycle whose fetch succeeded, previous_scores holds the
\* fetched (home, away) pair of every allow-listed fixture of the snapshot,
\* with or without a delta, whichever consumers raised during the delivery.
C17_SnapshotStoredAfterPoll ==
    (lastOp = "poll" /\ lastPoll.kind = "ok" /\ http_client = "open") =>
      \A i \in 1..Len(lastPoll.fixtures) :
        LET f == lastPoll.fixtures[i]
            h == IF f.home = Missing THEN 0 ELSE f.home
            a == IF f.away = Missing THEN 0 ELSE f.away
        IN  f.league_id \in SUPPORTED_LEAGUES
              => /\ f.id \in DOMAIN previous_scores
                 /\ previous_scores[f.id] = << h, a >>

\* both columns rose, the first consumer raised on both events, and the
\* snapshot was stored
C17_Witness ==
    /\ lastOp = "poll"
    /\ lastPoll = Response("ok", << Fixture(1, 39, 1, 1) >>)
    /\ hybrid_goal_callbacks = << "cb_raise", "cb_ok" >>
    /\ scoresBefore = (1 :> << 0, 0 >>)
    /\ Len(emitted) = 2
    /\ Len(calls) = 4
    /\ previous_scores[1] = << 1, 1 >>

\* C19: once stop() has been called the stream loop initiates no new
\* connection attempt and the health monitor starts no new poll cycle,
\* wherever the loops were when the call landed.
C19_NoNewAttemptAfterStop ==
    [][ stopPc # "idle"
        => /\ ~(wsPc # "connecting" /\ wsPc' = "connecting")
           /\ ~(tick' # tick /\ lastOp' = "poll")
      ]_vars

\* C20: after stop() has been called on a started HybridGoalListener, the
\* stream loop and the health monitor eventually terminate.
C20_LoopsTerminateAfterStop ==
    (stopPc # "idle") ~> (wsPc = "done" /\ monPc = "done")

\* C16: a polling-synthesized event is dispatched only after the stream path
\* has ended Exhausted, and no stream event is dispatched while the fallback
\* is active.
C16_SourcesExclusive ==
    [][ (tick' # tick /\ emitted' # << >>)
        => /\ lastOp' = "poll" => (exhausted > 0 /\ wsPc = "done")
           /\ lastOp' = "message" => ~use_polling_fallback
      ]_vars

\* a stream goal was dispatched to a consumer after the health monitor had
\* completed a cycle of its own without polling
C16_Witness ==
    /\ lastOp = "message"
    /\ emitted # << >>
    /\ calls # << >>
    /\ wsPc = "receiving"
    /\ monPc = "loop"
    /\ lastPoll = NoResponse

\* C15: a consumer is never invoked while an earlier invocation of it has not
\* returned; a source takes its next message or poll cycle only when the
\* dispatch of the previous one has begun and returned for every consumer;
\* and within one dispatch the invocations are made event by event, in the
\* order the events were produced.
C15_DeliveredInOrderAwaited ==
    [][ /\ \A c \in Callbacks : open'[c] <= 1
        /\ tick' # tick => DispatchDone
        /\ callPos' = callPos + 1 => \A c \in Callbacks : open[c] = 0
        /\ \A i, j \in 1..Len(calls') : i < j => calls'[i][2] <= calls'[j][2]
      ]_vars

\* a poll cycle produced two events for two consumers; the first event was
\* delivered to both, and the first consumer is inside its call for the second
C15_Witness ==
    /\ lastOp = "poll"
    /\ Len(emitted) = 2
    /\ Len(calls) = 4
    /\ callPos = 4
    /\ open[calls[3][1]] = 1

\* C13: whenever the session export of stop() runs, every loop launched by
\* start() has already terminated.
C13_ExportAfterLoopsEnded ==
    [][ exports' # exports => AllTasksEnded ]_vars

\* C18: an exception raised by one of the tasks start() gathers ends neither
\* the gather nor the other loops: as long as nobody has called stop(), start
\* stays in its gather with the running flags set; and a stop() that was
\* called runs through all of its steps.
C18_RaisingTaskIsolated ==
    /\ estopPc = "idle" =>
         /\ engPc \in {"idle", "gathering"}
         /\ engPc = "gathering" => engine_running
         /\ (engPc = "gathering" /\ monPc # "idle") => hybrid_running
         /\ \A l \in EngineLoops : loopPc[l] # "done"
    /\ estopPc = "done" =>
         /\ stopPc = "returned"
         /\ http_client = "closed"
         /\ exports >= 1

\* a collaborator's task has raised, stop() has done its listener step and
\* reached its collaborator step, and another loop has not ended yet
C18_Witness ==
    /\ collabPc["alpha_one"] = "raised"
    /\ estopPc = "collaborators"
    /\ stopPc = "returned"
    /\ loopPc["odds"] = "sleep"
    /\ engPc = "gathering"

\* C21: an allow-listed goal message whose goal fields (and fixture, score
\* fields) are absent is handled like any other: its key is formed from
\* minute 0 and player "unknown"; when that key is not recorded the message is
\* dispatched once, to every consumer, as an event carrying the sentinels
\* (team and player "Unknown", minute 0, scores 0, type "Normal"); when the
\* key is recorded the message is a duplicate.
C21_MissingFieldsDefaulted ==
    [][ (tick' # tick /\ lastOp' = "message" /\ last'.type = "goal"
         /\ last'.bad = "none" /\ last'.league_id \in SUPPORTED_LEAGUES
         /\ last'.minute = Missing /\ last'.player = NoPlayer)
        => LET key == << last'.fixture_id, 0, "unknown" >>
           IN  /\ ~propagated'
               /\ key \notin seen_goals
                    => /\ emitted' =
                            << [source |-> "stream",
                                fixture_id |-> last'.fixture_id,
                                league_id |-> last'.league_id,
                                team |-> "Unknown", player |-> "Unknown",
                                minute |-> 0, home_score |-> 0,
                                away_score |-> 0, goal_type |-> "Normal"] >>
                       /\ calls' = ExpectedCalls(goal_callbacks, 1)
                       /\ delivered' = [delivered EXCEPT ![key] = @ + 1]
                       /\ key \in seen_goals' \/ prunes' = prunes + 1
               /\ key \in seen_goals
                    => /\ emitted' = << >>
                       /\ calls' = << >>
                       /\ seen_goals' = seen_goals
      ]_vars

\* the message without fixture, minute and player was dispatched to two
\* consumers and its key recorded
C21_Witness ==
    /\ lastOp = "message"
    /\ last = Msg("goal", Missing, 39, Missing, NoPlayer, "none")
    /\ Len(emitted) = 1
    /\ Len(calls) = 2
    /\ << Missing, 0, "unknown" >> \in seen_goals
    /\ delivered[<< Missing, 0, "unknown" >>] = 1

\* C22: whenever a connection ends while the listener is running, the next
\* connection attempt is preceded by an increment of reconnect_attempts and a
\* backoff delay, however the connection ended.
C22_ReconnectAfterBackoff ==
    [][ (connected /\ ~connected' /\ running')
        => /\ wsPc' = "backoff"
           /\ reconnect_attempts' = reconnect_attempts + 1
           /\ delay' > 0
      ]_vars

\* C23: a consumer registered k times on a listener is invoked exactly k times
\* for each event the listener dispatches, at the positions of its
\* registrations in the registry order.
C23_InvokedOncePerRegistration ==
    [][ tick' # tick
        => LET cbs == IF lastOp' = "message" THEN goal_callbacks
                                             ELSE hybrid_goal_callbacks
               n == Len(cbs)
           IN  /\ Len(calls') = n * Len(emitted')
               /\ \A e \in 1..Len(emitted') : \A c \in Callbacks :
                    { i \in 1..n : calls'[(e - 1) * n + i] = << c, e >> }
                      = { i \in 1..n : cbs[i] = c }
      ]_vars

\* a stream goal dispatched to a consumer registered twice
C23_Witness ==
    /\ lastOp = "message"
    /\ goal_callbacks = << "cb_ok", "cb_ok" >>
    /\ Len(emitted) = 1
    /\ calls = << <<"cb_ok", 1>>, <<"cb_ok", 1>> >>

\* C24: the consumer the engine registers once through the hybrid listener is
\* held once by each registry, is invoked exactly once for every goal admitted
\* by the stream path and once for every goal synthesized by the polling path,
\* and goals_processed grows by one per delivered goal.
C24_EngineConsumerOncePerGoal ==
    [][ tick' # tick
        => /\ goal_callbacks = << OnGoalEvent >>
           /\ hybrid_goal_callbacks = << OnGoalEvent >>
           /\ calls' = [e \in 1..Len(emitted') |-> << OnGoalEvent, e >>]
           /\ goals_processed' = goals_processed + Len(emitted')
      ]_vars

\* a stream goal followed by a poll cycle that synthesizes two goals
C24_Witness ==
    /\ lastOp = "poll"
    /\ Len(emitted) = 2
    /\ calls = << << OnGoalEvent, 1 >>, << OnGoalEvent, 2 >> >>
    /\ \E k \in Keys : delivered[k] = 1
    /\ goals_processed = 3

C26_CountsFailedSessions ==
    [][ (runBase = 0 /\ running /\ connected /\ runFails' = runFails + 1)
        => reconnect_attempts' = failsBeforeConnect + 1
      ]_vars

\* C26 amended: reconnect_attempts counts the failed sessions since the last
\* successful connect.  A session that connected and then failed leaves the
\* counter at 1 whatever preceded it; a failed connect adds one; Exhausted is
\* reported only by a failed connect that follows ceiling failures with no
\* successful connect among them.
C26_CountsFailuresSinceConnect ==
    [][ (runBase = 0 /\ running /\ runFails' = runFails + 1)
        => /\ connected => reconnect_attempts' = 1
           /\ ~connected => reconnect_attempts' = reconnect_attempts + 1
           /\ exhausted' > exhausted
                <=> (~connected /\ reconnect_attempts = max_reconnect_attempts)
      ]_vars

\* a session that connected and then failed is backed off from as attempt 1
C26_Witness ==
    /\ runBase = 0
    /\ wsPc = "backoff"
    /\ ws = "closed"
    /\ reconnect_attempts = 1
    /\ runFails = 1

\* C27: reconnect_attempts stays within 0..ceiling+1 in every state, restarts
\* of the stream loop after Exhausted included, and a run of start() that
\* began after Exhausted reports Exhausted again only after ceiling backoff
\* sleeps of its own.
C27_AttemptsWithinBudget ==
    /\ reconnect_attempts \in 0..(max_reconnect_attempts + 1)
    /\ (exhausted > 0 /\ runBase > max_reconnect_attempts)
         => runSleeps = max_reconnect_attempts

\* C28: a poll cycle whose fetch raises or answers with a status other than
\* 200 emits no event, leaves previous_scores as it was and lets no error out
\* of _poll_for_goals (so the monitor's loop goes on), and the cycle after it
\* compares against the snapshots as usual; a successful cycle that meets an
\* allow-listed fixture without a stored snapshot emits no event for it and
\* records its scores.
C28_FailedPollHarmless ==
    [][ (tick' # tick /\ lastOp' = "poll")
        => /\ lastPoll'.kind # "ok"
                => /\ emitted' = << >>
                   /\ calls' = << >>
                   /\ ~propagated'
                   /\ previous_scores' = previous_scores
           /\ lastPoll'.kind = "ok"
                => \A i \in 1..Len(lastPoll'.fixtures) :
                     LET f == lastPoll'.fixtures[i]
                         h == IF f.home = Missing THEN 0 ELSE f.home
                         a == IF f.away = Missing THEN 0 ELSE f.away
                     IN  f.league_id \in SUPPORTED_LEAGUES
                           => /\ f.id \notin DOMAIN previous_scores
                                   => /\ EventCount(emitted', f.id, "home") = 0
                                      /\ EventCount(emitted', f.id, "away") = 0
                                      /\ f.id \in DOMAIN previous_scores'
                                      /\ previous_scores'[f.id] = << h, a >>
                              /\ (/\ f.id \in DOMAIN previous_scores
                                  /\ lastOp = "poll"
                                  /\ lastPoll.kind # "ok")
                                   => /\ EventCount(emitted', f.id, "home")
                                           = IF h > previous_scores[f.id][1]
                                               THEN 1 ELSE 0
                                      /\ EventCount(emitted', f.id, "away")
                                           = IF a > previous_scores[f.id][2]
                                               THEN 1 ELSE 0
      ]_vars

\* a failed cycle that found snapshots stored and left them as they were
C28_Witness ==
    /\ lastOp = "poll"
    /\ lastPoll.kind = "error"
    /\ scoresBefore # EmptyMap
    /\ previous_scores = scoresBefore
    /\ emitted = << >>

====
